---- MODULE Spec2Model ----
(***************************************************************************)
(* State-machine model of packages/web/src/designer/GraphLayout.ts:        *)
(* GraphDefinition (addNode, addEdge, initialize) and GraphLayout          *)
(* (createCircle, fillEdges, changePositions, fixViewBox, springyStep,     *)
(* springyAlg, score, tryMoveNode, tryMoveElement, doMoveSteps).           *)
(*                                                                         *)
(* GraphNode objects live in a heap: an object reference is its index in   *)
(* graph.heap, so that JavaScript's == on objects is equality of           *)
(* references.  designerIds are the numbers of NodeIds; they stand for     *)
(* opaque non-numeric strings ordered as the numbers are.                  *)
(*                                                                         *)
(* Numbers are integers.  Widths and heights are even, so the halves the   *)
(* code takes are exact.  sqrt, sin, cos, PI and the divisions of the      *)
(* force computation are fixed-point (ISqrt, SinMilli, CosMilli,           *)
(* TwoPiMilli, DivT): IEEE rounding is not modelled.                       *)
(***************************************************************************)
EXTENDS Integers, Sequences, FiniteSets, TLC

\* ---------------------------------------------------------------- constants
MIN_NODE_DISTANCE == 50
SPRING_LENGTH == 100
SPRINGY_STEPS == 50
\* 0.01 in thousandths
GRAVITY == 10
REPULSION == 500000
MAX_FORCE_SIZE == 100
NODE_MARGIN == 20
MOVE_STEP == 20
MOVE_BIG_STEP == 70
MOVE_STEP_COUNT == 1000
MINIMAL_SCORE_BENEFIT == 1

\* ------------------------------------------------------------------- bounds
\* addNode calls (GraphNode objects allocated) in one construction
MaxAddNode == 3
\* edges in one graph
MaxEdges == 2
\* layout method calls made on the layout chain after createCircle
MaxLayoutOps == 2

NodeIds == 1 .. 3
\* <<width, height>> of the nodes that construction may add
Sizes == {<<20, 40>>, <<60, 20>>}
\* <<width, height>> of the nodes of the long refinement runs
BigSizes == {<<24000, 24000>>}

\* radius of a GraphNode whose initialize() has not run (undefined)
Undefined == 0 - 1
\* the score of a layout without nodes (NaN)
NaN == 0 - 1

\* ------------------------------------------------------------- GraphDefinition
EmptyGraph == [nodes |-> [i \in NodeIds |-> 0], order |-> << >>, heap |-> << >>, edges |-> << >>]

\* new GraphNode(this, designerId, width, height)
GraphNode(designerId, width, height) ==
  [designerId |-> designerId, width |-> width, height |-> height,
   neightboors |-> << >>, radius |-> Undefined]

\* new GraphEdge(this, source, target)
GraphEdge(source, target) == [source |-> source, target |-> target]

\* this.nodes[designerId] = new GraphNode(...): a fresh object; an existing key
\* keeps its place in the property order, edges keep the object they hold
addNode(g, designerId, width, height) ==
  [g EXCEPT !.heap = Append(g.heap, GraphNode(designerId, width, height)),
            !.nodes[designerId] = Len(g.heap) + 1,
            !.order = IF g.nodes[designerId] = 0 THEN Append(g.order, designerId) ELSE g.order]

\* edges.find(x => (x.source == source && x.target == target) ||
\*                 (x.target == source && x.source == target))
findEdge(g, source, target) ==
  \E i \in 1 .. Len(g.edges) :
     \/ g.edges[i].source = source /\ g.edges[i].target = target
     \/ g.edges[i].target = source /\ g.edges[i].source = target

addEdge(g, sourceId, targetId) ==
  LET source == g.nodes[sourceId]
      target == g.nodes[targetId]
  IN  IF source # 0 /\ target # 0 /\ ~ findEdge(g, source, target)
        THEN [g EXCEPT !.edges = Append(g.edges, GraphEdge(source, target))]
        ELSE g

\* integer square root (floor)
RECURSIVE SqrtSearch(_, _, _)
SqrtSearch(n, lo, hi) ==
  IF lo >= hi THEN lo
  ELSE LET mid == (lo + hi + 1) \div 2
       IN  IF mid * mid <= n THEN SqrtSearch(n, mid, hi) ELSE SqrtSearch(n, lo, mid - 1)

ISqrt(n) == SqrtSearch(n, 0, 46340)

\* Math.sqrt((width * width) / 4 + (height * height) / 4)
Radius(width, height) == ISqrt((width * width) \div 4 + (height * height) \div 4)

SeqIncludes(s, x) == \E i \in 1 .. Len(s) : s[i] = x

\* the inner loop of initialize() for one node, from edge i on
RECURSIVE ScanEdges(_, _, _, _)
ScanEdges(g, node, i, nb) ==
  IF i > Len(g.edges) THEN nb
  ELSE LET edge == g.edges[i]
           nb1 == IF edge.source = node /\ ~ SeqIncludes(nb, edge.target)
                    THEN Append(nb, edge.target) ELSE nb
           nb2 == IF edge.target = node /\ ~ SeqIncludes(nb1, edge.source)
                    THEN Append(nb1, edge.source) ELSE nb1
       IN  ScanEdges(g, node, i + 1, nb2)

\* for (const node of Object.values(this.nodes)) { scan the edges; node.initialize() }
initialize(g) ==
  [g EXCEPT !.heap = [o \in 1 .. Len(g.heap) |->
     IF g.nodes[g.heap[o].designerId] = o
       THEN [g.heap[o] EXCEPT
               !.neightboors = ScanEdges(g, o, 1, g.heap[o].neightboors),
               !.radius = Radius(g.heap[o].width, g.heap[o].height)]
       ELSE g.heap[o]]]

\* --------------------------------------------------------------- designerMath
Abs(a) == IF a < 0 THEN 0 - a ELSE a
Max2(a, b) == IF a >= b THEN a ELSE b
Min2(a, b) == IF a <= b THEN a ELSE b

\* a / b rounded toward zero
DivT(a, b) == IF (a >= 0) = (b > 0) THEN Abs(a) \div Abs(b) ELSE 0 - (Abs(a) \div Abs(b))

Vector2D(x, y) == [x |-> x, y |-> y]
add(v1, v2) == Vector2D(v1.x + v2.x, v1.y + v2.y)
subtract(v1, v2) == Vector2D(v1.x - v2.x, v1.y - v2.y)
magnitudeSq(v) == v.x * v.x + v.y * v.y
magnitude(v) == ISqrt(magnitudeSq(v))

\* the unit vector of v in thousandths; the zero vector for the zero vector
\* (divide() turns x / 0 into 0)
normalise(v) ==
  IF magnitudeSq(v) = 0 THEN Vector2D(0, 0)
  ELSE Vector2D(DivT(v.x * 1000, magnitude(v)), DivT(v.y * 1000, magnitude(v)))

\* direction.multiply(num / den) for a direction in thousandths
multiply(direction, num, den) ==
  Vector2D(DivT(direction.x * num, 1000 * den), DivT(direction.y * num, 1000 * den))

\* the gap between two rectangles: 0 when they touch or overlap
rectangleDistance(r1, r2) ==
  LET gx == Max2(0, Max2(r2.left - r1.right, r1.left - r2.right))
      gy == Max2(0, Max2(r2.top - r1.bottom, r1.top - r2.bottom))
  IN  ISqrt(gx * gx + gy * gy)

\* the area two rectangles share
rectangleIntersectArea(r1, r2) ==
  LET w == Min2(r1.right, r2.right) - Max2(r1.left, r2.left)
      h == Min2(r1.bottom, r2.bottom) - Max2(r1.top, r2.top)
  IN  IF w > 0 /\ h > 0 THEN w * h ELSE 0

\* Math.sin(2 PI k / n) and Math.cos(2 PI k / n) in thousandths
SinMilli(k, n) ==
  CASE n = 3 /\ k = 1 -> 866
    [] n = 3 /\ k = 2 -> 0 - 866
    [] n = 4 /\ k = 1 -> 1000
    [] n = 4 /\ k = 3 -> 0 - 1000
    [] OTHER -> 0

CosMilli(k, n) ==
  CASE k = 0 -> 1000
    [] n = 2 /\ k = 1 -> 0 - 1000
    [] n = 3 -> 0 - 500
    [] n = 4 /\ k = 2 -> 0 - 1000
    [] OTHER -> 0

\* 2 * Math.PI in thousandths
TwoPiMilli == 6283

\* ------------------------------------------------------------------ LayoutNode
\* constructor(node, x, y)
LayoutNode(g, node, x, y) ==
  LET width == g.heap[node].width
      height == g.heap[node].height
  IN  [node |-> node, x |-> x, y |-> y,
       left |-> x - width \div 2, top |-> y - height \div 2,
       right |-> x + width \div 2, bottom |-> y + height \div 2,
       paddedRect |-> [left |-> x - width \div 2 - NODE_MARGIN,
                       top |-> y - height \div 2 - NODE_MARGIN,
                       right |-> x + width \div 2 + NODE_MARGIN,
                       bottom |-> y + height \div 2 + NODE_MARGIN]]

position(n) == Vector2D(n.x, n.y)
translate(g, n, dx, dy) == LayoutNode(g, n.node, n.x + dx, n.y + dy)
distanceTo(n1, n2) == rectangleDistance(n1, n2)
intersectArea(n1, n2) == rectangleIntersectArea(n1.paddedRect, n2.paddedRect)
idOf(g, n) == g.heap[n.node].designerId

\* ---------------------------------------------------------- addNodeNeighboors
\* the sort key of _.sortBy(nodes, [neightboors.length, height, designerId])
KeyLess(g, a, b) ==
  LET la == Len(g.heap[a].neightboors)
      lb == Len(g.heap[b].neightboors)
      ha == g.heap[a].height
      hb == g.heap[b].height
  IN  \/ la < lb
      \/ la = lb /\ ha < hb
      \/ la = lb /\ ha = hb /\ g.heap[a].designerId < g.heap[b].designerId

\* x put into the sorted s after every element that is not greater (stable)
RECURSIVE InsertSorted(_, _, _)
InsertSorted(g, s, x) ==
  IF s = << >> THEN <<x>>
  ELSE IF KeyLess(g, x, s[1]) THEN <<x>> \o s
  ELSE <<s[1]>> \o InsertSorted(g, Tail(s), x)

RECURSIVE sortBy(_, _)
sortBy(g, nodes) ==
  IF nodes = << >> THEN << >>
  ELSE InsertSorted(g, sortBy(g, SubSeq(nodes, 1, Len(nodes) - 1)), nodes[Len(nodes)])

\* st = [res, addedNodes]; the for loop over nodesSorted from index i on
RECURSIVE addNodeNeighboors(_, _, _)
RECURSIVE VisitSorted(_, _, _, _)
VisitSorted(g, nodesSorted, i, st) ==
  IF i > Len(nodesSorted) THEN st
  ELSE LET node == nodesSorted[i]
       IN  IF g.heap[node].designerId \in st.addedNodes
             THEN VisitSorted(g, nodesSorted, i + 1, st)
             ELSE VisitSorted(g, nodesSorted, i + 1,
                    addNodeNeighboors(g, g.heap[node].neightboors,
                      [res |-> Append(st.res, node),
                       addedNodes |-> st.addedNodes \cup {g.heap[node].designerId}]))

addNodeNeighboors(g, nodes, st) == VisitSorted(g, sortBy(g, nodes), 1, st)

\* ----------------------------------------------------------------- GraphLayout
\* _.values(graph.nodes): the node objects in property order
values(g) == [i \in 1 .. Len(g.order) |-> g.nodes[g.order[i]]]

\* this.nodes[id] of a layout node list
NodeOf(g, nodes, id) == nodes[CHOOSE i \in 1 .. Len(nodes) : idOf(g, nodes[i]) = id]

LayoutEdge(edge, length, source, target) ==
  [edge |-> edge, length |-> length, source |-> source, target |-> target]

\* variant: the length taken between the centers
fillEdgesCenterDistance(g, nodes) ==
  [e \in 1 .. Len(g.edges) |->
     LET n1 == NodeOf(g, nodes, g.heap[g.edges[e].source].designerId)
         n2 == NodeOf(g, nodes, g.heap[g.edges[e].target].designerId)
     IN  LayoutEdge(e, magnitude(subtract(position(n1), position(n2))), n1, n2)]

\* this.edges = this.graph.edges.map(...)
fillEdges(g, nodes) ==
  [e \in 1 .. Len(g.edges) |->
     LET n1 == NodeOf(g, nodes, g.heap[g.edges[e].source].designerId)
         n2 == NodeOf(g, nodes, g.heap[g.edges[e].target].designerId)
     IN  LayoutEdge(e, distanceTo(n1, n2), n1, n2)]

NullLayout == [null |-> TRUE, nodes |-> << >>, edges |-> << >>]

GraphLayout(nodes, edges) == [null |-> FALSE, nodes |-> nodes, edges |-> edges]

\* variant: the edge list carried over from this layout
changePositionsKeepEdges(g, L, nodes) == GraphLayout(nodes, L.edges)

\* res = new GraphLayout(this.graph); res.nodes = nodes, the
\* _.mapValues(this.nodes, nodeFunc) the caller passes; res.fillEdges()
changePositions(g, L, nodes) == GraphLayout(nodes, fillEdges(g, nodes))

\* _.max of the radii; undefined radii are skipped
RECURSIVE MaxRadius(_, _)
MaxRadius(g, nodes) ==
  IF nodes = << >> THEN Undefined
  ELSE Max2(g.heap[nodes[1]].radius, MaxRadius(g, Tail(nodes)))

createCircle(g) ==
  IF g.order = << >> THEN GraphLayout(<< >>, << >>)
  ELSE LET circleSortedNodes == addNodeNeighboors(g, values(g), [res |-> << >>, addedNodes |-> {}]).res
           nodeRadius == MaxRadius(g, circleSortedNodes)
           nodeCount == Len(circleSortedNodes)
           radius == DivT(nodeCount * nodeRadius * 1000, TwoPiMilli) + nodeRadius
           nodes == [k \in 1 .. nodeCount |->
                       LayoutNode(g, circleSortedNodes[k],
                                  DivT(SinMilli(k - 1, nodeCount) * radius, 1000),
                                  DivT(CosMilli(k - 1, nodeCount) * radius, 1000))]
       IN  GraphLayout(nodes, fillEdges(g, nodes))

RECURSIVE MinOver(_, _)
MinOver(s, i) == IF i = Len(s) THEN s[i] ELSE Min2(s[i], MinOver(s, i + 1))
RECURSIVE MaxOver(_, _)
MaxOver(s, i) == IF i = Len(s) THEN s[i] ELSE Max2(s[i], MaxOver(s, i + 1))

Lefts(L) == [i \in 1 .. Len(L.nodes) |-> L.nodes[i].left]
Tops(L) == [i \in 1 .. Len(L.nodes) |-> L.nodes[i].top]
Rights(L) == [i \in 1 .. Len(L.nodes) |-> L.nodes[i].right]
Bottoms(L) == [i \in 1 .. Len(L.nodes) |-> L.nodes[i].bottom]

\* variant: the least corner moved to the origin
fixViewBoxNoOffset(g, L) ==
  IF L.nodes = << >> THEN changePositions(g, L, << >>)
  ELSE LET minX == MinOver(Lefts(L), 1)
           minY == MinOver(Tops(L), 1)
       IN  changePositions(g, L,
             [i \in 1 .. Len(L.nodes) |-> translate(g, L.nodes[i], 0 - minX, 0 - minY)])

\* with no node _.min is undefined and nodeFunc is never called
fixViewBox(g, L) ==
  IF L.nodes = << >> THEN changePositions(g, L, << >>)
  ELSE LET minX == MinOver(Lefts(L), 1)
           minY == MinOver(Tops(L), 1)
       IN  changePositions(g, L,
             [i \in 1 .. Len(L.nodes) |-> translate(g, L.nodes[i], 0 - minX + 50, 0 - minY + 50)])

\* the double loop of score() as a sum over the ordered pairs from (i, j) on
RECURSIVE PairSum(_, _, _)
PairSum(L, i, j) ==
  IF i > Len(L.nodes) THEN 0
  ELSE IF j > Len(L.nodes) THEN PairSum(L, i + 1, 1)
  ELSE (IF i = j THEN 0 ELSE intersectArea(L.nodes[i], L.nodes[j])) + PairSum(L, i, j + 1)

score(L) ==
  IF L.nodes = << >> THEN NaN
  ELSE PairSum(L, 1, 1)
       + (MaxOver(Rights(L), 1) - MinOver(Lefts(L), 1))
       + (MaxOver(Bottoms(L), 1) - MinOver(Tops(L), 1))

\* ---------------------------------------------------------- ForceAlgorithmStep
\* nodeForces: designerId -> the accumulated force, has = FALSE while the key is absent
NoForces == [id \in NodeIds |-> [has |-> FALSE, force |-> Vector2D(0, 0)]]

applyForce(nodeForces, id, force) ==
  LET clamped == IF magnitudeSq(force) > MAX_FORCE_SIZE * MAX_FORCE_SIZE
                   THEN multiply(normalise(force), MAX_FORCE_SIZE, 1)
                   ELSE force
  IN  [nodeForces EXCEPT ![id] =
         IF @.has THEN [has |-> TRUE, force |-> add(@.force, clamped)]
         ELSE [has |-> TRUE, force |-> clamped]]

\* the loop over layout.edges from edge e on
RECURSIVE applyHooksLaw(_, _, _, _)
applyHooksLaw(g, L, e, nodeForces) ==
  IF e > Len(L.edges) THEN nodeForces
  ELSE LET edge == L.edges[e]
           d == subtract(position(edge.target), position(edge.source))
           displacement == SPRING_LENGTH - edge.length
           direction == normalise(d)
           nf1 == applyForce(nodeForces, idOf(g, edge.source), multiply(direction, 0 - displacement, 2))
           nf2 == applyForce(nf1, idOf(g, edge.target), multiply(direction, displacement, 2))
       IN  applyHooksLaw(g, L, e + 1, nf2)

\* the double loop over layout.nodes from the ordered pair (i, j) on
RECURSIVE applyCoulombsLaw(_, _, _, _, _)
applyCoulombsLaw(g, L, i, j, nodeForces) ==
  IF i > Len(L.nodes) THEN nodeForces
  ELSE IF j > Len(L.nodes) THEN applyCoulombsLaw(g, L, i + 1, 1, nodeForces)
  ELSE IF idOf(g, L.nodes[i]) = idOf(g, L.nodes[j]) THEN applyCoulombsLaw(g, L, i, j + 1, nodeForces)
  ELSE LET n1 == L.nodes[i]
           n2 == L.nodes[j]
           d == subtract(position(n1), position(n2))
           direction == normalise(d)
           distance == distanceTo(n1, n2) + MIN_NODE_DISTANCE
           \* direction in thousandths times (0.5 * REPULSION) / distance^2
           push == Vector2D(DivT(direction.x * (REPULSION \div 2000), distance * distance),
                            DivT(direction.y * (REPULSION \div 2000), distance * distance))
           nf1 == applyForce(nodeForces, idOf(g, n1), push)
           nf2 == applyForce(nf1, idOf(g, n2), Vector2D(0 - push.x, 0 - push.y))
       IN  applyCoulombsLaw(g, L, i, j + 1, nf2)

RECURSIVE applyGravity(_, _, _, _)
applyGravity(g, L, i, nodeForces) ==
  IF i > Len(L.nodes) THEN nodeForces
  ELSE LET node == L.nodes[i]
           direction == Vector2D(0 - node.x, 0 - node.y)
       IN  applyGravity(g, L, i + 1,
             applyForce(nodeForces, idOf(g, node), multiply(direction, GRAVITY, 1)))

moveNode(g, nodeForces, node) ==
  LET f == nodeForces[idOf(g, node)]
  IN  IF f.has THEN translate(g, node, f.force.x, f.force.y) ELSE node

springyStep(g, L) ==
  LET afterHooke == applyHooksLaw(g, L, 1, NoForces)
      afterCoulomb == applyCoulombsLaw(g, L, 1, 1, afterHooke)
      nodeForces == applyGravity(g, L, 1, afterCoulomb)
  IN  changePositions(g, L, [i \in 1 .. Len(L.nodes) |-> moveNode(g, nodeForces, L.nodes[i])])

\* ------------------------------------------------------------------ refinement
\* the translations of tryMoveNode, in the order of its array
Moves ==
  << <<MOVE_STEP, 0>>, <<0 - MOVE_STEP, 0>>, <<0, MOVE_STEP>>, <<0, 0 - MOVE_STEP>>,
     <<MOVE_BIG_STEP, MOVE_BIG_STEP>>, <<MOVE_BIG_STEP, 0 - MOVE_BIG_STEP>>,
     <<0 - MOVE_BIG_STEP, MOVE_BIG_STEP>>, <<0 - MOVE_BIG_STEP, 0 - MOVE_BIG_STEP>> >>

\* the layouts of tryMoveNode for the node at place k of the layout
tryMoveNode(g, L, k) ==
  [m \in 1 .. Len(Moves) |->
     changePositions(g, L,
       [i \in 1 .. Len(L.nodes) |->
          IF i = k THEN translate(g, L.nodes[k], Moves[m][1], Moves[m][2]) ELSE L.nodes[i]])]

\* variant: a later item of equal score replaces the best
BetterOrEqual(items, i, best) ==
  IF best.res.null \/ score(items[i]) <= best.resScore
    THEN [res |-> items[i], resScore |-> score(items[i])]
    ELSE best

\* if (resScore == null || score < resScore) { res = item; resScore = score }
Better(items, i, best) ==
  IF best.res.null \/ score(items[i]) < best.resScore
    THEN [res |-> items[i], resScore |-> score(items[i])]
    ELSE best

\* the double loop of tryMoveElement from node k, item m on
RECURSIVE TryFrom(_, _, _, _, _)
TryFrom(g, L, k, m, best) ==
  IF k > Len(L.nodes) THEN best
  ELSE IF m > Len(Moves) THEN TryFrom(g, L, k + 1, 1, best)
  ELSE TryFrom(g, L, k, m + 1, Better(tryMoveNode(g, L, k), m, best))

\* null for a layout without nodes
tryMoveElement(g, L) == TryFrom(g, L, 1, 1, [res |-> NullLayout, resScore |-> 0]).res

\* ---------------------------------------------------------------------- state
\* graph:  the GraphDefinition
\* pc:     "build" (construction), "ready" (initialized), "layout" (the caller
\*         holds a layout), "springy" (inside springyAlg), "moving" (inside
\*         doMoveSteps), "error" (a TypeError was thrown)
\* call:   the method called last, with the ids passed to addNode and addEdge
\* layout: the GraphLayout the caller holds (null: the value null)
\* ms:     the locals of doMoveSteps; sp: the locals of springyAlg
\* ops:    layout method calls made so far
VARIABLES graph, pc, call, layout, ms, sp, ops
vars == <<graph, pc, call, layout, ms, sp, ops>>

Call(op, a, b) == [op |-> op, a |-> a, b |-> b]

NoMove == [res |-> NullLayout, score |-> 0, step |-> 0, lastRes |-> NullLayout,
           input |-> NullLayout, exit |-> "none"]
NoSpringy == [res |-> NullLayout, step |-> 0]

Init ==
  /\ graph = EmptyGraph
  /\ pc = "build"
  /\ call = Call("none", 0, 0)
  /\ layout = NullLayout
  /\ ms = NoMove
  /\ sp = NoSpringy
  /\ ops = 0

\* --------------------------------------------------------------- construction
AddNode ==
  /\ pc = "build"
  /\ Len(graph.heap) < MaxAddNode
  /\ \E id \in NodeIds, size \in Sizes :
       /\ graph' = addNode(graph, id, size[1], size[2])
       /\ call' = Call("addNode", id, 0)
  /\ UNCHANGED <<pc, layout, ms, sp, ops>>

\* the caller passes two distinct ids, known or not
AddEdge ==
  /\ pc = "build"
  /\ \E sourceId \in NodeIds, targetId \in NodeIds :
       /\ sourceId # targetId
       /\ graph' = addEdge(graph, sourceId, targetId)
       /\ Len(graph'.edges) <= MaxEdges
       /\ call' = Call("addEdge", sourceId, targetId)
  /\ UNCHANGED <<pc, layout, ms, sp, ops>>

Initialize ==
  /\ pc = "build"
  /\ graph' = initialize(graph)
  /\ pc' = "ready"
  /\ call' = Call("initialize", 0, 0)
  /\ UNCHANGED <<layout, ms, sp, ops>>

Next == AddNode \/ AddEdge \/ Initialize

Spec == Init /\ [][Next]_vars

\* --------------------------------------------------------------------- layout
\* a construction: the addNode and addEdge calls in order
N(id, size) == <<"addNode", id, size[1], size[2]>>
E(sourceId, targetId) == <<"addEdge", sourceId, targetId>>

RECURSIVE Build(_, _, _)
Build(script, i, g) ==
  IF i > Len(script) THEN g
  ELSE Build(script, i + 1,
         IF script[i][1] = "addNode"
           THEN addNode(g, script[i][2], script[i][3], script[i][4])
           ELSE addEdge(g, script[i][2], script[i][3]))

\* the edge calls made after the nodes of a construction
EdgeCalls == { << >>, <<E(1, 2)>>, <<E(2, 1), E(3, 2)>>, <<E(1, 2), E(2, 3), E(3, 1), E(2, 1)>> }

\* the constructions the layouts are computed for: no node, one node, two and
\* three nodes with and without edges (a call naming an id not added is a
\* no-op), and a node added again after it got an edge
LayoutScripts ==
  {<< >>}
  \cup { <<N(1, s)>> : s \in Sizes }
  \cup { <<N(2, s), N(1, t)>> \o e : s \in Sizes, t \in Sizes, e \in {<< >>, <<E(1, 2)>>} }
  \cup { <<N(3, p[1]), N(1, p[2]), N(2, p[1])>> \o e :
            p \in {q \in Sizes \X Sizes : q[1] # q[2]}, e \in EdgeCalls }
  \cup { <<N(1, s), N(2, s), E(1, 2), N(1, t)>> \o e : s \in Sizes, t \in Sizes, e \in {<< >>, <<E(2, 1)>>} }
  \cup { <<N(1, p[1]), N(2, p[1]), E(1, 2), N(1, p[2]), N(3, p[1]), E(1, 3)>> :
            p \in {q \in Sizes \X Sizes : q[1] # q[2]} }

\* the constructions of the long refinement runs
MoveScripts ==
  {<< >>}
  \cup { <<N(1, s)>> : s \in Sizes }
  \cup { <<N(1, s), N(2, s)>> \o e : s \in BigSizes \cup Sizes, e \in {<< >>, <<E(1, 2)>>} }

InitLayout ==
  /\ \E script \in LayoutScripts : graph = initialize(Build(script, 1, EmptyGraph))
  /\ pc = "ready"
  /\ call = Call("initialize", 0, 0)
  /\ layout = NullLayout
  /\ ms = NoMove
  /\ sp = NoSpringy
  /\ ops = 0

InitMove ==
  /\ \E script \in MoveScripts : graph = initialize(Build(script, 1, EmptyGraph))
  /\ pc = "ready"
  /\ call = Call("initialize", 0, 0)
  /\ layout = NullLayout
  /\ ms = NoMove
  /\ sp = NoSpringy
  /\ ops = 0

\* GraphLayout.createCircle(graph)
CreateCircle ==
  /\ pc = "ready"
  /\ layout' = createCircle(graph)
  /\ pc' = "layout"
  /\ call' = Call("createCircle", 0, 0)
  /\ UNCHANGED <<graph, ms, sp, ops>>

\* the caller calls a method of the layout it holds
CanCall == pc = "layout" /\ ops < MaxLayoutOps

\* layout.springyStep()
SpringyStep ==
  /\ CanCall /\ ~ layout.null
  /\ layout' = springyStep(graph, layout)
  /\ call' = Call("springyStep", 0, 0)
  /\ ops' = ops + 1
  /\ UNCHANGED <<graph, pc, ms, sp>>

\* layout.fixViewBox()
FixViewBox ==
  /\ CanCall /\ ~ layout.null
  /\ layout' = fixViewBox(graph, layout)
  /\ call' = Call("fixViewBox", 0, 0)
  /\ ops' = ops + 1
  /\ UNCHANGED <<graph, pc, ms, sp>>

\* layout.tryMoveElement()
TryMoveElement ==
  /\ CanCall /\ ~ layout.null
  /\ layout' = tryMoveElement(graph, layout)
  /\ call' = Call("tryMoveElement", 0, 0)
  /\ ops' = ops + 1
  /\ UNCHANGED <<graph, pc, ms, sp>>

\* a method called on null throws a TypeError
CallOnNull ==
  /\ CanCall /\ layout.null
  /\ pc' = "error"
  /\ \E m \in {"springyStep", "springyAlg", "fixViewBox", "tryMoveElement", "doMoveSteps"} :
       call' = Call(m, 0, 0)
  /\ ops' = ops + 1
  /\ UNCHANGED <<graph, layout, ms, sp>>

\* layout.springyAlg(): let res = this
SpringyAlgBegin ==
  /\ CanCall /\ ~ layout.null
  /\ sp' = [res |-> layout, step |-> 0]
  /\ pc' = "springy"
  /\ call' = Call("springyAlg", 0, 0)
  /\ ops' = ops + 1
  /\ UNCHANGED <<graph, layout, ms>>

\* one round of the loop of springyAlg
SpringyAlgStep ==
  /\ pc = "springy"
  /\ sp.step < SPRINGY_STEPS
  /\ sp' = [res |-> springyStep(graph, sp.res), step |-> sp.step + 1]
  /\ UNCHANGED <<graph, pc, call, layout, ms, ops>>

\* return res
SpringyAlgReturn ==
  /\ pc = "springy"
  /\ sp.step >= SPRINGY_STEPS
  /\ layout' = sp.res
  /\ pc' = "layout"
  /\ UNCHANGED <<graph, call, ms, sp, ops>>

\* layout.doMoveSteps(): let res = this; let score = res.score()
DoMoveStepsBegin ==
  /\ CanCall /\ ~ layout.null
  /\ ms' = [res |-> layout, score |-> score(layout), step |-> 0, lastRes |-> layout,
            input |-> layout, exit |-> "none"]
  /\ pc' = "moving"
  /\ call' = Call("doMoveSteps", 0, 0)
  /\ ops' = ops + 1
  /\ UNCHANGED <<graph, layout, sp>>

\* variant: the loop without its step limit
LoopEndsNever(step) == FALSE

\* step < MOVE_STEP_COUNT fails
LoopEnds(step) == step >= MOVE_STEP_COUNT

\* variant: the step's own layout returned
ReturnRes(m, lastRes, res) ==
  [m EXCEPT !.lastRes = lastRes, !.res = res, !.exit = "benefit"]

\* if (score - newScore < MINIMAL_SCORE_BENEFIT) return lastRes: the locals at the return,
\* m.res the layout returned
ReturnLastRes(m, lastRes, res) ==
  [m EXCEPT !.lastRes = lastRes, !.res = lastRes, !.exit = "benefit"]

\* score - newScore < MINIMAL_SCORE_BENEFIT
NoBenefit(sc, newScore) == sc - newScore < MINIMAL_SCORE_BENEFIT

\* the loop of doMoveSteps at its head: return res when step < MOVE_STEP_COUNT
\* fails, else one round; tryMoveElement returns null for a layout without
\* nodes and res.score() then throws a TypeError
DoMoveStepsStep ==
  /\ pc = "moving"
  /\ IF LoopEnds(ms.step)
       THEN /\ ms' = [ms EXCEPT !.exit = "count"]
            /\ layout' = ms.res
            /\ pc' = "layout"
       ELSE LET lastRes == ms.res
                res == tryMoveElement(graph, lastRes)
            IN  IF res.null
                  THEN /\ pc' = "error"
                       /\ ms' = [ms EXCEPT !.res = res, !.lastRes = lastRes, !.exit = "TypeError"]
                       /\ UNCHANGED layout
                  ELSE IF NoBenefit(ms.score, score(res))
                    THEN /\ ms' = ReturnLastRes(ms, lastRes, res)
                         /\ layout' = ms'.res
                         /\ pc' = "layout"
                    ELSE /\ ms' = [ms EXCEPT !.res = res, !.lastRes = lastRes,
                                             !.score = score(res), !.step = ms.step + 1]
                         /\ UNCHANGED <<layout, pc>>
  /\ UNCHANGED <<graph, call, sp, ops>>

NextLayout ==
  \/ CreateCircle
  \/ SpringyStep
  \/ FixViewBox
  \/ TryMoveElement
  \/ CallOnNull
  \/ SpringyAlgBegin
  \/ SpringyAlgStep
  \/ SpringyAlgReturn
  \/ DoMoveStepsBegin
  \/ DoMoveStepsStep

SpecLayout == InitLayout /\ [][NextLayout]_vars

NextMove ==
  \/ CreateCircle
  \/ DoMoveStepsBegin
  \/ DoMoveStepsStep

SpecMove == InitMove /\ [][NextMove]_vars

\* ===================================================================== claims
IdsOf(g) == {id \in NodeIds : g.nodes[id] # 0}
\* the ids an edge of the graph joins
EdgeIds(g, e) == {g.heap[g.edges[e].source].designerId, g.heap[g.edges[e].target].designerId}
JoinedById(g, a, b) == \E e \in 1 .. Len(g.edges) : EdgeIds(g, e) = {a, b}
EdgesJoining(g, a, b) == {e \in 1 .. Len(g.edges) : EdgeIds(g, e) = {a, b}}

\* C1: the edge list never holds two edges that join the same unordered pair of
\* node ids, whatever addNode and addEdge calls were made (an id added again
\* included).
C1_NoDuplicateEdge ==
  \A e \in 1 .. Len(graph.edges), f \in 1 .. Len(graph.edges) :
     e # f => EdgeIds(graph, e) # EdgeIds(graph, f)

\* C2: addEdge(sourceId, targetId) changes neither the node map nor the edge
\* list when an id is unknown or an edge already joins the two ids in either
\* direction; otherwise it appends exactly one edge, joining them, at the end;
\* after the call exactly one edge joins two known ids.
C2_AddEdgeContract ==
  [][(pc = "build" /\ call'.op = "addEdge") =>
       LET a == call'.a
           b == call'.b
       IN  /\ graph'.nodes = graph.nodes
           /\ graph'.order = graph.order
           /\ IF graph.nodes[a] = 0 \/ graph.nodes[b] = 0 \/ JoinedById(graph, a, b)
                THEN graph'.edges = graph.edges
                ELSE /\ Len(graph'.edges) = Len(graph.edges) + 1
                     /\ SubSeq(graph'.edges, 1, Len(graph.edges)) = graph.edges
                     /\ EdgeIds(graph', Len(graph'.edges)) = {a, b}
           /\ (graph.nodes[a] # 0 /\ graph.nodes[b] # 0)
                => Cardinality(EdgesJoining(graph', a, b)) = 1]_vars

\* C3: for a graph without nodes createCircle, springyAlg and doMoveSteps
\* complete without an error and return a layout with no nodes and no edges.
C3_EmptyGraphNoError ==
  (/\ graph.order = << >>
   /\ ~ layout.null
   /\ call.op \in {"createCircle", "springyAlg", "doMoveSteps"})
  => /\ pc # "error"
     /\ pc = "layout" => (layout.nodes = << >> /\ layout.edges = << >>)

\* C4: doMoveSteps makes at most MOVE_STEP_COUNT (1000) refinement steps and
\* then returns, and every step after which the loop goes on lowered the score
\* by at least MINIMAL_SCORE_BENEFIT (1) from the layout accepted before.
C4_BoundedDescent ==
  /\ [](pc = "moving" => ms.step <= MOVE_STEP_COUNT)
  /\ [][(pc = "moving" /\ pc' = "moving") =>
          /\ ms'.step = ms.step + 1
          /\ ms.step < MOVE_STEP_COUNT
          /\ ms'.score = score(ms'.res)
          /\ ms'.score <= ms.score - MINIMAL_SCORE_BENEFIT]_vars

C4_Witness ==
  pc = "layout" /\ call.op = "doMoveSteps" /\ ms.exit = "count" /\ ms.step = MOVE_STEP_COUNT

\* the layouts the state holds
Layouts ==
  (IF pc \in {"layout", "springy", "moving", "error"} THEN {layout} ELSE {})
  \cup (IF pc = "springy" THEN {sp.res} ELSE {})
  \cup (IF pc = "moving" THEN {ms.res} ELSE {})

CenterDistance(n1, n2) == ISqrt((n1.x - n2.x) * (n1.x - n2.x) + (n1.y - n2.y) * (n1.y - n2.y))

\* the node a layout holds under the id of a graph node
LayoutNodeFor(L, node) ==
  CHOOSE n \in {L.nodes[i] : i \in 1 .. Len(L.nodes)} :
     graph.heap[n.node].designerId = graph.heap[node].designerId

C6_LayoutMatchesGraph ==
  graph.order # << >> =>
    \A L \in Layouts :
       /\ ~ L.null
       /\ {graph.heap[L.nodes[i].node].designerId : i \in 1 .. Len(L.nodes)} = IdsOf(graph)
       /\ Len(L.nodes) = Cardinality(IdsOf(graph))
       /\ Len(L.edges) = Len(graph.edges)
       /\ \A e \in 1 .. Len(L.edges) :
             /\ L.edges[e].edge = e
             /\ L.edges[e].source = LayoutNodeFor(L, graph.edges[e].source)
             /\ L.edges[e].target = LayoutNodeFor(L, graph.edges[e].target)

C6_Witness ==
  /\ pc = "layout" /\ call.op = "tryMoveElement" /\ ops >= 2
  /\ Len(layout.nodes) = 3 /\ Len(layout.edges) >= 2

\* C7: fixViewBox of a layout with nodes gives a layout whose least left is 50
\* and whose least top is 50, every node moved by the same (dx, dy).
C7_FixViewBox ==
  [][(pc = "layout" /\ pc' = "layout" /\ call'.op = "fixViewBox" /\ ops' = ops + 1
      /\ layout.nodes # << >>) =>
       /\ Len(layout'.nodes) = Len(layout.nodes)
       /\ \A i \in 1 .. Len(layout'.nodes) : layout'.nodes[i].left >= 50 /\ layout'.nodes[i].top >= 50
       /\ \E i \in 1 .. Len(layout'.nodes) : layout'.nodes[i].left = 50
       /\ \E i \in 1 .. Len(layout'.nodes) : layout'.nodes[i].top = 50
       /\ \A i \in 1 .. Len(layout.nodes), j \in 1 .. Len(layout.nodes) :
             /\ layout'.nodes[i].node = layout.nodes[i].node
             /\ layout'.nodes[i].x - layout'.nodes[j].x = layout.nodes[i].x - layout.nodes[j].x
             /\ layout'.nodes[i].y - layout'.nodes[j].y = layout.nodes[i].y - layout.nodes[j].y]_vars

C7_Witness ==
  /\ pc = "layout" /\ call.op = "fixViewBox" /\ ops >= 2
  /\ Len(layout.nodes) >= 2
  /\ \E i \in 1 .. Len(layout.nodes) : layout.nodes[i].left = 50
  /\ \E i \in 1 .. Len(layout.nodes) : layout.nodes[i].left > 50

\* C8: when a step gains less than 1, doMoveSteps returns the layout it had before
\* that step; the layout it returns never scores higher than the layout it was
\* called on; when the first step gains less than 1 it returns that layout itself.
C8_ReturnsPreviousLayout ==
  (pc = "layout" /\ call.op = "doMoveSteps") =>
     /\ ms.exit = "benefit" => layout = ms.lastRes
     /\ ms.exit = "benefit" => ms.score = score(layout)
     /\ score(layout) <= score(ms.input)
     /\ (ms.exit = "benefit" /\ ms.step = 0) => layout = ms.input

C8_Witness ==
  /\ pc = "layout" /\ call.op = "doMoveSteps" /\ ms.exit = "benefit"
  /\ ms.step >= 1
  /\ score(layout) < score(ms.input)

\* the translations C9 lists, in its order
ListedMoves ==
  << <<20, 0>>, <<-20, 0>>, <<0, 20>>, <<0, -20>>, <<70, 70>>, <<70, -70>>, <<-70, 70>>, <<-70, -70>> >>

\* candidate c of layout L in iteration order: node by node, move by move
CandidateNodes(L, c) ==
  LET k == (c - 1) \div 8 + 1
      m == ((c - 1) % 8) + 1
  IN  [i \in 1 .. Len(L.nodes) |->
         IF i = k THEN LayoutNode(graph, L.nodes[k].node,
                                  L.nodes[k].x + ListedMoves[m][1], L.nodes[k].y + ListedMoves[m][2])
         ELSE L.nodes[i]]

CandidateScore(L, c) == score(GraphLayout(CandidateNodes(L, c), << >>))

\* C9: tryMoveElement of a layout with N >= 1 nodes returns one of the N * 8
\* candidates (one node moved by one listed translation, the others in place),
\* none of the candidates scores less, and every candidate before it in
\* iteration order scores more.
C9_FirstBestCandidate ==
  [][(pc = "layout" /\ pc' = "layout" /\ call'.op = "tryMoveElement" /\ ops' = ops + 1
      /\ layout.nodes # << >>) =>
       \E c \in 1 .. 8 * Len(layout.nodes) :
          /\ layout'.nodes = CandidateNodes(layout, c)
          /\ \A d \in 1 .. 8 * Len(layout.nodes) : CandidateScore(layout, c) <= CandidateScore(layout, d)
          /\ \A d \in 1 .. c - 1 : CandidateScore(layout, d) > CandidateScore(layout, c)]_vars

C9_Witness ==
  /\ pc = "layout" /\ call.op = "tryMoveElement" /\ ops >= 1
  /\ Len(layout.nodes) >= 2
  /\ score(layout) > 0

\* C10: after initialize(), for every node A of the node map and every id B, a
\* node with id B is in A's adjacency list exactly once if an edge joins the ids
\* A and B (in either direction) and not at all otherwise.
C10_AdjacencyMatchesEdges ==
  pc = "ready" =>
    \A a \in IdsOf(graph), b \in NodeIds :
       LET nb == graph.heap[graph.nodes[a]].neightboors
       IN  Cardinality({i \in 1 .. Len(nb) : graph.heap[nb[i]].designerId = b})
             = IF JoinedById(graph, a, b) THEN 1 ELSE 0

====
